---- MODULE Spec2Model ----
(***************************************************************************)
(* Model of src/src/components/VoiceWaveVisualizer.tsx: the lifecycle of   *)
(* the capture session (startListening / stopListening / unmount), the     *)
(* requestAnimationFrame render loop (updateWaveform) and the feature      *)
(* arithmetic (loudness, dominant bin, pitch proxy).                       *)
(*                                                                         *)
(* Numbers that are floating point in the source are exact rationals here  *)
(* (records [num, den] in lowest terms); references that are null in the   *)
(* source are Null.                                                        *)
(***************************************************************************)
EXTENDS Integers, Sequences, FiniteSets

VARIABLES
  isListening,        \* useState(false), line 4
  volume,             \* useState(0), line 5 (rational)
  pitch,              \* useState(0), line 6 (rational)
  audioContextRef,    \* line 7: Null or the id of an AudioContext
  analyserRef,        \* line 8: Null or the id of an AnalyserNode
  mediaStreamRef,     \* line 9: Null or the id of a MediaStream
  animationFrameRef,  \* line 10: Null or a requestAnimationFrame id
  canvasRef,          \* line 11: Null or CanvasElement
  mounted,            \* the component is mounted (useEffect cleanup not yet run)
  startPc,            \* position of every startListening invocation
  audioContexts,      \* AudioContexts constructed and not closed
  liveStreams,        \* MediaStreams whose tracks have not been stopped
  rafQueue,           \* ids of the animation-frame callbacks that are scheduled
  lastOp,             \* the handler that ran last
  tickPath,           \* the path updateWaveform took in the last step, if it ran
  tickLocals,         \* the locals of updateWaveform in the last step, if it drew
  stopRun,            \* how many stopListening calls ran back to back just now
  unmountedWhile,     \* what isListening was when the effect cleanup ran
  dataArray,          \* input of the feature computation: time-domain frame
  frequencyData,      \* input of the feature computation: spectrum frame
  maxIndex,           \* line 95: the dominant index the scan found
  featPc              \* position of the feature computation

vars == <<isListening, volume, pitch, audioContextRef, analyserRef,
          mediaStreamRef, animationFrameRef, canvasRef, mounted, startPc,
          audioContexts, liveStreams, rafQueue, lastOp, tickPath, tickLocals,
          stopRun, unmountedWhile, dataArray, frequencyData, maxIndex, featPc>>

featureVars == <<dataArray, frequencyData, maxIndex, featPc>>

lifecycleVars == <<isListening, audioContextRef, analyserRef, mediaStreamRef,
                   animationFrameRef, canvasRef, mounted, startPc,
                   audioContexts, liveStreams, rafQueue, stopRun,
                   unmountedWhile, tickPath, tickLocals>>

(***************************************************************************)
(* Bounds of the model and constants of the program.                       *)
(***************************************************************************)
MaxStarts == 3

MaxFrameLen == 3

BigBins == 2048

\* An analyser window twice as long; C18 must tell it from fftSize.
fftSize_Doubled == 2 * 2048

fftSize == 2048

Midpoint == 128

VolumeScale == 4

VolumeMax == 100

PitchDivisor == 20

PitchMax == 100

Null == 0

CanvasElement == 1

Invocations == 1..MaxStarts

(***************************************************************************)
(* Exact rational arithmetic for the floating-point expressions.           *)
(***************************************************************************)
RECURSIVE Gcd(_, _)
Gcd(a, b) == IF b = 0 THEN a ELSE Gcd(b, a % b)

Rat(n, d) ==
  LET g == Gcd(IF n < 0 THEN -n ELSE n, d)
  IN [num |-> n \div g, den |-> d \div g]

RatInt(n) == [num |-> n, den |-> 1]

RatLeq(a, b) == a.num * b.den <= b.num * a.den

RatLt(a, b) == a.num * b.den < b.num * a.den

RatMul(a, b) == Rat(a.num * b.num, a.den * b.den)

RatMin(a, b) == IF RatLeq(a, b) THEN a ELSE b

RatAdd(a, b) == Rat(a.num * b.den + b.num * a.den, a.den * b.den)

RatDiv(a, b) == Rat(a.num * b.den, a.den * b.num)

Abs(x) == IF x < 0 THEN -x ELSE x

(***************************************************************************)
(* The two for loops of updateWaveform.  A loop over i = lo..hi applies    *)
(* its body in increasing order of i; the range is split in two halves     *)
(* only to keep the evaluation shallow, and the left half is forced before *)
(* the right half starts.                                                  *)
(***************************************************************************)
\* Frames are sequences; the source's index i is position i + 1.
At(frame, i) == frame[i + 1]

(***************************************************************************)
(* Lines 85-90: loudness.                                                  *)
(***************************************************************************)
SumStep(frame, sum, i) == sum + Abs(At(frame, i) - Midpoint)

RECURSIVE SumLoop(_, _, _, _)
SumLoop(frame, lo, hi, sum) ==
  IF lo > hi THEN sum
  ELSE IF lo = hi THEN SumStep(frame, sum, lo)
  ELSE LET mid == (lo + hi) \div 2
           left == SumLoop(frame, lo, mid, sum)
       IN IF left = left THEN SumLoop(frame, mid + 1, hi, left) ELSE sum

SumDeviation(frame) == SumLoop(frame, 0, Len(frame) - 1, 0)

\* Loudness without the Math.min of line 90; C8 must tell it from Loudness.
Loudness_NoClamp(frame) ==
  RatMul(Rat(SumDeviation(frame), Len(frame)), RatInt(VolumeScale))

Loudness(frame) ==
  RatMin(RatMul(Rat(SumDeviation(frame), Len(frame)), RatInt(VolumeScale)),
         RatInt(VolumeMax))

(***************************************************************************)
(* Lines 93-103: dominant bin and pitch proxy.                             *)
(***************************************************************************)
\* The loop body with >= in place of > at line 97 (the last maximum wins);
\* C10 must tell it from ScanStep.
ScanStep_LastWins(spectrum, acc, i) ==
  IF At(spectrum, i) >= acc.maxValue
  THEN [maxValue |-> At(spectrum, i), maxIndex |-> i]
  ELSE acc

ScanStep(spectrum, acc, i) ==
  IF At(spectrum, i) > acc.maxValue
  THEN [maxValue |-> At(spectrum, i), maxIndex |-> i]
  ELSE acc

RECURSIVE ScanLoop(_, _, _, _)
ScanLoop(spectrum, lo, hi, acc) ==
  IF lo > hi THEN acc
  ELSE IF lo = hi THEN ScanStep(spectrum, acc, lo)
  ELSE LET mid == (lo + hi) \div 2
           left == ScanLoop(spectrum, lo, mid, acc)
       IN IF left = left THEN ScanLoop(spectrum, mid + 1, hi, left) ELSE acc

DominantIndex(spectrum) ==
  ScanLoop(spectrum, 0, Len(spectrum) - 1, [maxValue |-> 0, maxIndex |-> 0]).maxIndex

\* The normalisation without the Math.min of line 103; C9 must tell it from
\* NormalizedPitch.
NormalizedPitch_NoClamp(index) == Rat(index, PitchDivisor)

NormalizedPitch(index) ==
  RatMin(Rat(index, PitchDivisor), RatInt(PitchMax))

PitchProxy(spectrum) == NormalizedPitch(DominantIndex(spectrum))

(***************************************************************************)
(* The platform's AnalyserNode (lines 26-27, 75-83).  frequencyBinCount is *)
(* half of fftSize; getByteTimeDomainData / getByteFrequencyData fill the  *)
(* array they are given, up to the length of the analyser's own window.    *)
(* The audio in the window is an input: a two-sample pattern repeated over *)
(* the window, and a spectrum with one peak over a flat floor.             *)
(***************************************************************************)
frequencyBinCount == fftSize \div 2

TimePatterns == { <<128, 128>>, <<128, 153>>, <<0, 255>> }

SpectrumShapes ==
  { [peak |-> 0, peakValue |-> 0, floor |-> 0],
    [peak |-> 1000, peakValue |-> 200, floor |-> 10],
    [peak |-> frequencyBinCount - 1, peakValue |-> 255, floor |-> 10] }

TimeDomainWindow(p) == [i \in 1..fftSize |-> IF i % 2 = 1 THEN p[1] ELSE p[2]]

FrequencyWindow(s) ==
  [i \in 1..frequencyBinCount |-> IF i - 1 = s.peak THEN s.peakValue ELSE s.floor]

GetByteTimeDomainData(arrayLength, p) ==
  SubSeq(TimeDomainWindow(p), 1, IF arrayLength < fftSize THEN arrayLength ELSE fftSize)

GetByteFrequencyData(arrayLength, s) ==
  SubSeq(FrequencyWindow(s), 1,
         IF arrayLength < frequencyBinCount THEN arrayLength ELSE frequencyBinCount)

\* The time-domain array allocated with fftSize elements instead; C14 must
\* tell it from TickDataArray.
TickDataArray_FullWindow(p) == GetByteTimeDomainData(fftSize, p)

\* Lines 75-83: both arrays are allocated with frequencyBinCount elements.
TickDataArray(p) == GetByteTimeDomainData(frequencyBinCount, p)

TickFrequencyData(s) == GetByteFrequencyData(frequencyBinCount, s)

\* The features of every frame a tick can read (lines 85-104).
TickVolume == [p \in TimePatterns |-> Loudness(TickDataArray(p))]

TickPitch == [s \in SpectrumShapes |-> PitchProxy(TickFrequencyData(s))]

(***************************************************************************)
(* Lines 111 and 118: the stroke hue and the amplitude factor.             *)
(***************************************************************************)
Hue(normalizedPitch) == RatMul(normalizedPitch, RatInt(2))

\* The factor with the + 0.5 outside the product, (v / 50) * (p / 50) + 0.5;
\* C11 must tell it from AmplitudeFactor.
AmplitudeFactor_AddOutside(newVolume, normalizedPitch) ==
  RatAdd(RatMul(RatDiv(newVolume, RatInt(50)), RatDiv(normalizedPitch, RatInt(50))),
         Rat(1, 2))

AmplitudeFactor(newVolume, normalizedPitch) ==
  RatMul(RatDiv(newVolume, RatInt(50)),
         RatAdd(RatDiv(normalizedPitch, RatInt(50)), Rat(1, 2)))

(***************************************************************************)
(* The locals of a tick that draws (lines 75-118), for every audio input,  *)
(* and their value in a step that does not draw.                           *)
(***************************************************************************)
NoTick ==
  [bufferLength |-> 0, dataLength |-> 0, spectrumLength |-> 0, maxIndex |-> 0,
   hue |-> RatInt(0), amplitudeFactor |-> RatInt(0)]

TickLocals ==
  [p \in TimePatterns, s \in SpectrumShapes |->
     [bufferLength |-> frequencyBinCount,
      dataLength |-> Len(TickDataArray(p)),
      spectrumLength |-> Len(TickFrequencyData(s)),
      maxIndex |-> DominantIndex(TickFrequencyData(s)),
      hue |-> Hue(TickPitch[s]),
      amplitudeFactor |-> AmplitudeFactor(TickVolume[p], TickPitch[s])]]

(***************************************************************************)
(* requestAnimationFrame / cancelAnimationFrame.  The id handed out is the *)
(* smallest one that no scheduled callback holds: the only place an id is  *)
(* kept is animationFrameRef, which every request overwrites.              *)
(***************************************************************************)
RequestAnimationFrame(queue) ==
  CHOOSE id \in 1..(Cardinality(queue) + 1) :
    id \notin queue /\ \A j \in 1..(id - 1) : j \in queue

CancelAnimationFrame(queue, id) == queue \ {id}

(***************************************************************************)
(* Lines 58-137: updateWaveform, called with the analyser reference as it  *)
(* is at the call, the callbacks scheduled at the call, whether            *)
(* getContext("2d") returns a context, and the audio in the window.        *)
(***************************************************************************)
updateWaveform(analyser, queue, hasContext2d, p, s) ==
  IF analyser = Null \/ canvasRef = Null
  THEN \* lines 59-62
       /\ animationFrameRef' = RequestAnimationFrame(queue)
       /\ rafQueue' = queue \cup {RequestAnimationFrame(queue)}
       /\ tickPath' = "skipped"
       /\ tickLocals' = NoTick
       /\ UNCHANGED <<volume, pitch>>
  ELSE IF ~hasContext2d
  THEN \* line 68
       /\ rafQueue' = queue
       /\ tickPath' = "nocontext"
       /\ tickLocals' = NoTick
       /\ UNCHANGED <<animationFrameRef, volume, pitch>>
  ELSE \* lines 70-136
       /\ volume' = TickVolume[p]
       /\ pitch' = TickPitch[s]
       /\ animationFrameRef' = RequestAnimationFrame(queue)
       /\ rafQueue' = queue \cup {RequestAnimationFrame(queue)}
       /\ tickPath' = "drawn"
       /\ tickLocals' = TickLocals[p, s]

(***************************************************************************)
(* stopListening with setIsListening(!isListening) in place of line 52; C4 *)
(* must tell it from stopListening.                                        *)
(***************************************************************************)
stopListening_Toggle ==
  /\ IF mediaStreamRef # Null
     THEN /\ liveStreams' = liveStreams \ {mediaStreamRef}
          /\ mediaStreamRef' = Null
     ELSE UNCHANGED <<liveStreams, mediaStreamRef>>
  /\ IF animationFrameRef # Null
     THEN /\ rafQueue' = CancelAnimationFrame(rafQueue, animationFrameRef)
          /\ animationFrameRef' = Null
     ELSE UNCHANGED <<rafQueue, animationFrameRef>>
  /\ isListening' = ~isListening
  /\ volume' = RatInt(0)
  /\ pitch' = RatInt(0)
  /\ tickPath' = "none"
  /\ tickLocals' = NoTick
  /\ stopRun' = stopRun + 1
  /\ UNCHANGED <<audioContextRef, analyserRef, startPc, audioContexts>>

(***************************************************************************)
(* stopListening that also closes the AudioContext and clears the context  *)
(* and analyser references; C19 must tell it from stopListening.           *)
(***************************************************************************)
stopListening_ClosesContext ==
  /\ IF mediaStreamRef # Null
     THEN /\ liveStreams' = liveStreams \ {mediaStreamRef}
          /\ mediaStreamRef' = Null
     ELSE UNCHANGED <<liveStreams, mediaStreamRef>>
  /\ IF animationFrameRef # Null
     THEN /\ rafQueue' = CancelAnimationFrame(rafQueue, animationFrameRef)
          /\ animationFrameRef' = Null
     ELSE UNCHANGED <<rafQueue, animationFrameRef>>
  /\ audioContexts' = audioContexts \ {audioContextRef}
  /\ audioContextRef' = Null
  /\ analyserRef' = Null
  /\ isListening' = FALSE
  /\ volume' = RatInt(0)
  /\ pitch' = RatInt(0)
  /\ tickPath' = "none"
  /\ tickLocals' = NoTick
  /\ stopRun' = stopRun + 1
  /\ UNCHANGED startPc

(***************************************************************************)
(* Lines 41-55: stopListening.                                             *)
(***************************************************************************)
stopListening ==
  /\ IF mediaStreamRef # Null
     THEN /\ liveStreams' = liveStreams \ {mediaStreamRef}
          /\ mediaStreamRef' = Null
     ELSE UNCHANGED <<liveStreams, mediaStreamRef>>
  /\ IF animationFrameRef # Null
     THEN /\ rafQueue' = CancelAnimationFrame(rafQueue, animationFrameRef)
          /\ animationFrameRef' = Null
     ELSE UNCHANGED <<rafQueue, animationFrameRef>>
  /\ isListening' = FALSE
  /\ volume' = RatInt(0)
  /\ pitch' = RatInt(0)
  /\ tickPath' = "none"
  /\ tickLocals' = NoTick
  /\ stopRun' = stopRun + 1
  /\ UNCHANGED <<audioContextRef, analyserRef, startPc, audioContexts>>

(***************************************************************************)
(* Lines 14-21: startListening up to the await.  Invocation k constructs   *)
(* AudioContext k and asks for the microphone.  An invocation made after   *)
(* an earlier one was rejected is marked as a retry while it waits and     *)
(* when it has resolved.                                                   *)
(***************************************************************************)
Awaiting(k) == startPc[k] \in {"awaiting", "retrying"}

startListening(k) ==
  /\ startPc[k] = "unused"
  /\ \A j \in 1..(k - 1) : startPc[j] # "unused"
  /\ audioContextRef' = k
  /\ audioContexts' = audioContexts \cup {k}
  /\ startPc' = [startPc EXCEPT ![k] =
                    IF \E j \in Invocations : startPc[j] = "rejected"
                    THEN "retrying" ELSE "awaiting"]
  /\ tickPath' = "none"
  /\ tickLocals' = NoTick
  /\ stopRun' = 0
  /\ UNCHANGED <<isListening, volume, pitch, analyserRef, mediaStreamRef,
                 animationFrameRef, liveStreams, rafQueue>>

(***************************************************************************)
(* Lines 180-189: the button runs stopListening while isListening is       *)
(* rendered, startListening otherwise.                                     *)
(***************************************************************************)
ClickStart ==
  /\ mounted
  /\ ~isListening
  /\ \E k \in Invocations : startListening(k)
  /\ lastOp' = "ClickStart"
  /\ UNCHANGED <<canvasRef, mounted, unmountedWhile, featureVars>>

ClickStop ==
  /\ mounted
  /\ isListening
  /\ stopListening
  /\ lastOp' = "ClickStop"
  /\ UNCHANGED <<canvasRef, mounted, unmountedWhile, featureVars>>

(***************************************************************************)
(* Lines 21-34: getUserMedia of invocation k resolves with stream k and    *)
(* the rest of the try block runs.                                         *)
(***************************************************************************)
AcquireResolved(k) ==
  /\ Awaiting(k)
  /\ startPc' = [startPc EXCEPT ![k] =
                    IF startPc[k] = "retrying" THEN "retryResolved" ELSE "resolved"]
  /\ mediaStreamRef' = k
  /\ liveStreams' = liveStreams \cup {k}
  /\ analyserRef' = k
  /\ isListening' = TRUE
  /\ \E hasContext2d \in BOOLEAN, p \in TimePatterns, s \in SpectrumShapes :
       updateWaveform(k, rafQueue, hasContext2d, p, s)
  /\ lastOp' = "AcquireResolved"
  /\ stopRun' = 0
  /\ UNCHANGED <<audioContextRef, audioContexts, canvasRef, mounted,
                 unmountedWhile, featureVars>>

(***************************************************************************)
(* Lines 21, 35-37: getUserMedia of invocation k rejects.                  *)
(***************************************************************************)
AcquireRejected(k) ==
  /\ Awaiting(k)
  /\ startPc' = [startPc EXCEPT ![k] = "rejected"]
  /\ lastOp' = "AcquireRejected"
  /\ tickPath' = "none"
  /\ tickLocals' = NoTick
  /\ stopRun' = 0
  /\ UNCHANGED <<isListening, volume, pitch, audioContextRef, analyserRef,
                 mediaStreamRef, animationFrameRef, audioContexts, liveStreams,
                 rafQueue, canvasRef, mounted, unmountedWhile, featureVars>>

(***************************************************************************)
(* The browser runs one of the scheduled animation-frame callbacks.        *)
(***************************************************************************)
Tick ==
  /\ \E id \in rafQueue :
       \E hasContext2d \in BOOLEAN, p \in TimePatterns, s \in SpectrumShapes :
         updateWaveform(analyserRef, rafQueue \ {id}, hasContext2d, p, s)
  /\ lastOp' = "Tick"
  /\ stopRun' = 0
  /\ UNCHANGED <<isListening, audioContextRef, analyserRef, mediaStreamRef,
                 startPc, audioContexts, liveStreams, canvasRef, mounted,
                 unmountedWhile, featureVars>>

(***************************************************************************)
(* Lines 139-144: unmount.  React detaches the canvas ref and runs the     *)
(* effect cleanup, which calls stopListening.                              *)
(***************************************************************************)
Teardown ==
  /\ mounted
  /\ mounted' = FALSE
  /\ canvasRef' = Null
  /\ unmountedWhile' = IF isListening THEN "listening" ELSE "idle"
  /\ stopListening
  /\ lastOp' = "Teardown"
  /\ UNCHANGED featureVars

(***************************************************************************)
(* The component after its first render (lines 4-11).                      *)
(***************************************************************************)
InitComponent ==
  /\ isListening = FALSE
  /\ volume = RatInt(0)
  /\ pitch = RatInt(0)
  /\ audioContextRef = Null
  /\ analyserRef = Null
  /\ mediaStreamRef = Null
  /\ animationFrameRef = Null
  /\ canvasRef = CanvasElement
  /\ mounted = TRUE
  /\ startPc = [k \in Invocations |-> "unused"]
  /\ audioContexts = {}
  /\ liveStreams = {}
  /\ rafQueue = {}
  /\ lastOp = "Init"
  /\ tickPath = "none"
  /\ tickLocals = NoTick
  /\ stopRun = 0
  /\ unmountedWhile = "none"

Init ==
  /\ InitComponent
  /\ dataArray = <<>>
  /\ frequencyData = <<>>
  /\ maxIndex = 0
  /\ featPc = "off"

Next ==
  \/ ClickStart
  \/ ClickStop
  \/ \E k \in Invocations : AcquireResolved(k)
  \/ \E k \in Invocations : AcquireRejected(k)
  \/ Tick
  \/ Teardown

Spec == Init /\ [][Next]_vars

(***************************************************************************)
(* The feature arithmetic on its own (lines 85-104), applied to every      *)
(* frame of up to MaxFrameLen samples and to long spectra whose peak lies  *)
(* around the index where the pitch clamp starts.                          *)
(***************************************************************************)
SampleValues == {0, 128, 140, 153, 255}

MagnitudeValues == {0, 30, 50}

ClampIndex == PitchDivisor * PitchMax

TimeFrames == UNION { [1..n -> SampleValues] : n \in 1..MaxFrameLen }

ShortSpectra == UNION { [1..n -> MagnitudeValues] : n \in 1..MaxFrameLen }

LongSpectrum(peak, peakValue, floor) ==
  [i \in 1..BigBins |-> IF i - 1 = peak THEN peakValue ELSE floor]

LongSpectra ==
  { LongSpectrum(ClampIndex - 1, 200, 10),
    LongSpectrum(ClampIndex, 200, 10),
    LongSpectrum(BigBins - 1, 255, 0),
    LongSpectrum(BigBins - 1, 0, 0) }

FeatureInputs ==
  (TimeFrames \X ShortSpectra) \cup ({ <<128>> } \X LongSpectra)

InitFeatures ==
  /\ InitComponent
  /\ \E input \in FeatureInputs :
       /\ dataArray = input[1]
       /\ frequencyData = input[2]
  /\ maxIndex = 0
  /\ featPc = "ready"

ComputeFeatures ==
  /\ featPc = "ready"
  /\ volume' = Loudness(dataArray)
  /\ maxIndex' = DominantIndex(frequencyData)
  /\ pitch' = NormalizedPitch(DominantIndex(frequencyData))
  /\ featPc' = "done"
  /\ lastOp' = "ComputeFeatures"
  /\ UNCHANGED <<dataArray, frequencyData, isListening, audioContextRef,
                 analyserRef, mediaStreamRef, animationFrameRef, canvasRef,
                 mounted, startPc, audioContexts, liveStreams, rafQueue,
                 tickPath, tickLocals, stopRun, unmountedWhile>>

NextFeatures == ComputeFeatures

SpecFeatures == InitFeatures /\ [][NextFeatures]_vars

(***************************************************************************)
(* Vocabulary of the properties.                                           *)
(***************************************************************************)
IsZero(r) == r.num = 0

InRange0to100(r) == RatLeq(RatInt(0), r) /\ RatLeq(r, RatInt(100))

RECURSIVE SeqSumDeviation(_)
SeqSumDeviation(frame) ==
  IF frame = <<>> THEN 0
  ELSE Abs(Head(frame) - 128) + SeqSumDeviation(Tail(frame))

AllSamples(frame, v) == \A i \in 1..Len(frame) : frame[i] = v

Alternating0And255(frame) ==
  /\ frame[1] \in {0, 255}
  /\ \A i \in 1..Len(frame) : frame[i] \in {0, 255}
  /\ \A i \in 1..(Len(frame) - 1) : frame[i] # frame[i + 1]

\* index (0-based) holds the only maximal magnitude of the spectrum
SingleMaximumAt(spectrum, index) ==
  \A j \in 0..(Len(spectrum) - 1) : j # index => At(spectrum, j) < At(spectrum, index)

\* index (0-based) is the first position that holds the maximal magnitude
FirstMaximumAt(spectrum, index) ==
  /\ index \in 0..(Len(spectrum) - 1)
  /\ \A j \in 0..(Len(spectrum) - 1) : At(spectrum, j) <= At(spectrum, index)
  /\ \A j \in 0..(index - 1) : At(spectrum, j) < At(spectrum, index)

OthersIdle(k) == \A j \in Invocations \ {k} : startPc[j] \in {"unused", "rejected"}

StopJustRan == stopRun > 0

(***************************************************************************)
(* C1: when start() fails because getUserMedia rejects, the component is   *)
(* not listening and holds no resource: no capture stream, no AudioContext *)
(* or analyser created by that start(), no scheduled render tick.          *)
(* The source constructs the AudioContext before the await (line 17) and   *)
(* the catch block (lines 35-37) does not close it.                        *)
(***************************************************************************)
C1_FailedStartHoldsNothing ==
  \A k \in Invocations :
    startPc[k] = "rejected" =>
      /\ k \notin audioContexts
      /\ audioContextRef # k
      /\ analyserRef # k
      /\ k \notin liveStreams
      /\ OthersIdle(k) => (~isListening /\ mediaStreamRef = Null /\ rafQueue = {})

(***************************************************************************)
(* C2: right after stop(), every track of every capture stream opened by   *)
(* an earlier start() is stopped, isListening is false and loudness and    *)
(* pitchProxy are 0.                                                       *)
(***************************************************************************)
C2_StopReleasesEveryStream ==
  StopJustRan =>
    /\ liveStreams = {}
    /\ ~isListening
    /\ IsZero(volume)
    /\ IsZero(pitch)

(***************************************************************************)
(* C3: after stop() no render tick runs until a later start() succeeds: no *)
(* tick runs while the stream's tracks are released, and loudness and      *)
(* pitchProxy stay 0 while not listening.                                  *)
(***************************************************************************)
C3_NoTickAfterStop ==
  /\ lastOp = "Tick" => (mediaStreamRef # Null /\ mediaStreamRef \in liveStreams)
  /\ ~isListening => (IsZero(volume) /\ IsZero(pitch))

(***************************************************************************)
(* C4: stop() is idempotent.  Every stopListening call, also one made      *)
(* while not listening, ends with isListening false, no stream reference,  *)
(* no pending-tick reference, loudness 0 and pitchProxy 0; and a call made *)
(* right after another one changes nothing at all.                         *)
(***************************************************************************)
StoppedState ==
  /\ ~isListening
  /\ mediaStreamRef = Null
  /\ animationFrameRef = Null
  /\ IsZero(volume)
  /\ IsZero(pitch)

C5_AtMostOneLiveStream == Cardinality(liveStreams) <= 1

(***************************************************************************)
(* C6: after teardown while listening, no draw or feature publish occurs   *)
(* and no device track is open.                                            *)
(***************************************************************************)
C6_TeardownWhileListening ==
  unmountedWhile = "listening" =>
    /\ liveStreams = {}
    /\ tickPath # "drawn"

(***************************************************************************)
(* C7: after teardown in any state (idle, listening, or with a pending     *)
(* acquisition) no device track is open and no render callback is          *)
(* scheduled or runs.                                                      *)
(***************************************************************************)
C7_NothingOutlivesTeardown ==
  ~mounted =>
    /\ liveStreams = {}
    /\ rafQueue = {}
    /\ lastOp # "Tick"

(***************************************************************************)
(* C8: loudness = min(4 * sum(|sample - 128|) / N, 100) lies in [0,100];   *)
(* an all-128 frame gives 0 and a frame alternating 0 and 255 gives 100.   *)
(***************************************************************************)
C8_LoudnessRange ==
  featPc = "done" =>
    /\ InRange0to100(volume)
    /\ LET s4 == 4 * SeqSumDeviation(dataArray)
           n == Len(dataArray)
       IN volume.num * n = volume.den * (IF s4 <= 100 * n THEN s4 ELSE 100 * n)
    /\ AllSamples(dataArray, 128) => IsZero(volume)
    /\ Alternating0And255(dataArray) => volume = RatInt(100)

C8_Witness ==
  /\ featPc = "done"
  /\ Len(dataArray) = MaxFrameLen
  /\ Alternating0And255(dataArray)
  /\ volume = RatInt(100)

(***************************************************************************)
(* C9: pitchProxy = min(maxIndex / 20, 100) lies in [0,100]; an all-zero   *)
(* spectrum gives maxIndex 0 and pitchProxy 0; a spectrum whose single     *)
(* maximal bin is at index >= 2000 gives pitchProxy 100.                   *)
(***************************************************************************)
C9_PitchRange ==
  featPc = "done" =>
    /\ InRange0to100(pitch)
    /\ pitch.num * 20 = pitch.den * (IF maxIndex <= 2000 THEN maxIndex ELSE 2000)
    /\ AllSamples(frequencyData, 0) => (maxIndex = 0 /\ IsZero(pitch))
    /\ (\E i \in 2000..(Len(frequencyData) - 1) : SingleMaximumAt(frequencyData, i))
         => pitch = RatInt(100)

C9_Witness ==
  /\ featPc = "done"
  /\ maxIndex > 2000
  /\ SingleMaximumAt(frequencyData, maxIndex)
  /\ pitch = RatInt(100)

(***************************************************************************)
(* C10: the dominant index is the smallest index whose magnitude equals    *)
(* the maximum of the frame; <<50, 50, 30>> gives 0.                       *)
(***************************************************************************)
C10_FirstOccurrenceWins ==
  featPc = "done" =>
    /\ FirstMaximumAt(frequencyData, maxIndex)
    /\ frequencyData = <<50, 50, 30>> => maxIndex = 0

C10_Witness ==
  /\ featPc = "done"
  /\ frequencyData = <<50, 50, 30>>
  /\ maxIndex = 0

(***************************************************************************)
(* C11: on every tick that draws, the amplitude factor equals              *)
(* (loudness / 50) * (pitchProxy / 50 + 0.5) of that tick's own loudness   *)
(* and pitchProxy: 1.5 for 50 and 50, 0 whenever loudness is 0, and never  *)
(* below loudness / 100.                                                   *)
(***************************************************************************)
C11_AmplitudeFactor ==
  tickPath = "drawn" =>
    LET a == tickLocals.amplitudeFactor
    IN /\ a.num * 2500 * volume.den * pitch.den
            = a.den * volume.num * (pitch.num + 25 * pitch.den)
       /\ (volume = RatInt(50) /\ pitch = RatInt(50)) => a = [num |-> 3, den |-> 2]
       /\ IsZero(volume) => IsZero(a)
       /\ a.num * 100 * volume.den >= a.den * volume.num

C11_Witness ==
  /\ tickPath = "drawn"
  /\ volume = RatInt(50)
  /\ pitch = RatInt(50)
  /\ tickLocals.amplitudeFactor = [num |-> 3, den |-> 2]

(***************************************************************************)
(* C12: every run of updateWaveform schedules exactly one next tick on     *)
(* every path, the skip paths for a missing analyser, canvas or canvas 2D  *)
(* context included; hence a tick is pending whenever the component is     *)
(* listening.                                                              *)
(* The source returns at line 68 without a requestAnimationFrame.          *)
(***************************************************************************)
C12_EveryTickReschedules ==
  /\ tickPath # "none" => animationFrameRef \in rafQueue
  /\ (isListening /\ mounted) => rafQueue # {}

(***************************************************************************)
(* C13: the render loop is a single chain: at most one render callback is  *)
(* scheduled at a time, under every interleaving.                          *)
(***************************************************************************)
C13_SingleRenderChain == Cardinality(rafQueue) <= 1

C15_TwoStateLifecycle ==
  /\ isListening <=>
       (mediaStreamRef # Null /\ mediaStreamRef \in liveStreams /\ rafQueue # {})
  /\ \A k \in Invocations :
       (startPc[k] = "rejected" /\ OthersIdle(k)) => ~isListening

(***************************************************************************)
(* C16: a capture failure is not terminal: when a start() issued after a   *)
(* failed one has its acquisition succeed, the component is listening with *)
(* exactly one open capture stream and a running render loop.              *)
(***************************************************************************)
C16_RetryReachesListening ==
  \A k \in Invocations :
    ( /\ lastOp = "AcquireResolved"
      /\ mediaStreamRef = k
      /\ mounted
      /\ startPc[k] = "retryResolved" )
    => /\ isListening
       /\ liveStreams = {k}
       /\ rafQueue # {}
       /\ animationFrameRef \in rafQueue

(***************************************************************************)
(* C17: every scheduled render callback has its id in animationFrameRef,   *)
(* and animationFrameRef is non-null only when a callback with that id is  *)
(* scheduled, so that the single cancel of stop() removes every pending    *)
(* tick.                                                                   *)
(***************************************************************************)
C17_RefTracksEveryCallback ==
  /\ \A id \in rafQueue : id = animationFrameRef
  /\ animationFrameRef # Null => animationFrameRef \in rafQueue

(***************************************************************************)
(* C18: the scanned spectrum has 1024 bins, so on every tick that draws    *)
(* the dominant index is at most 1023, the published pitchProxy is         *)
(* maxIndex / 20 and never exceeds 1023 / 20, the clamp to 100 is not      *)
(* active, and the stroke hue pitchProxy * 2 stays below 104.              *)
(***************************************************************************)
C18_PitchBelowClamp ==
  /\ RatLeq(pitch, [num |-> 1023, den |-> 20])
  /\ tickPath = "drawn" =>
       /\ tickLocals.maxIndex <= 1023
       /\ pitch.num * 20 = pitch.den * tickLocals.maxIndex
       /\ RatLt(pitch, RatInt(52))
       /\ tickLocals.hue.num * pitch.den = 2 * pitch.num * tickLocals.hue.den
       /\ RatLt(tickLocals.hue, RatInt(104))

C18_Witness ==
  /\ tickPath = "drawn"
  /\ tickLocals.maxIndex = 1023
  /\ pitch = [num |-> 1023, den |-> 20]
  /\ RatLt(RatInt(102), tickLocals.hue)

(***************************************************************************)
(* C19: stop() leaves the analyser reference and the AudioContext          *)
(* reference as they are and closes no AudioContext; it stops only the     *)
(* tracks of the stream in mediaStreamRef and cancels only the callback in *)
(* animationFrameRef.  The two references change only in a later start():  *)
(* audioContextRef when it is called, analyserRef when its acquisition     *)
(* resolves.                                                               *)
(***************************************************************************)
C19_StopLeavesAnalysisContext ==
  [][ /\ stopRun' > 0 =>
           /\ UNCHANGED <<analyserRef, audioContextRef, audioContexts, startPc>>
           /\ liveStreams' = liveStreams \ {mediaStreamRef}
           /\ rafQueue' = rafQueue \ {animationFrameRef}
      /\ analyserRef' # analyserRef => lastOp' = "AcquireResolved"
      /\ audioContextRef' # audioContextRef => lastOp' = "ClickStart"
      /\ audioContexts \subseteq audioContexts' ]_vars

C19_Witness ==
  /\ lastOp = "ClickStop"
  /\ ~isListening
  /\ analyserRef # Null
  /\ audioContextRef # Null
  /\ audioContextRef \in audioContexts

====
